---------------------------- MODULE Spec2Model ----------------------------
(***************************************************************************)
(* Model of bin/dswx_landcover_mask_dswe.py: create_landcover_mask, the    *)
(* routine that aligns the ESA WorldCover 10 m raster and the Copernicus   *)
(* 100 m raster to the grid of a reference (HLS) raster, aggregates the    *)
(* fine class indicators to 30 m counts and classifies every cell by an    *)
(* ordered list of threshold rules.                                        *)
(*                                                                         *)
(* numpy arrays are records [shape |-> <<rows, cols>>, data |-> f] where f *)
(* maps the flat (row-major, 0-based) position to the cell value, the view *)
(* reshape(-1) gives.                                                      *)
(***************************************************************************)
EXTENDS Integers, Sequences, FiniteSets, TLC

\* ------------------------------------------------------------- bounds

\* Largest row count (RasterYSize) of the reference raster.
MaxLength == 2
\* Largest column count (RasterXSize) of the reference raster.
MaxWidth == 2
\* The fine source rasters drawn hold one class in their first k 10 m
\* pixels (row-major) and another class elsewhere, k in 0..MaxSplit.
MaxSplit == 9
\* The coarse source rasters drawn hold 111 in their first k 30 m cells
\* (row-major) and a non-evergreen class elsewhere, k in 0..MaxCSplit.
MaxCSplit == 2

\* ---------------------------------------------------- program constants

UNCLASSIFIED == 30000
TREE == 42
URBAN_MAJORITY == 2019
URBAN_DENSE == 20191
WATER == 25000
EVERGREEN == 111
TargetRes == 30
FineRes == 10

\* -------------------------------------------------------------- strings

\* A Python str is the sequence of its characters.
UpperCase == <<"A","B","C","D","E","F","G","H","I","J","K","L","M",
               "N","O","P","Q","R","S","T","U","V","W","X","Y","Z">>
LowerCase == <<"a","b","c","d","e","f","g","h","i","j","k","l","m",
               "n","o","p","q","r","s","t","u","v","w","x","y","z">>

LowerCharIdentity(c) == c

\* str.lower() on one character.
LowerChar(c) ==
    IF \E i \in DOMAIN UpperCase : UpperCase[i] = c
    THEN LowerCase[CHOOSE i \in DOMAIN UpperCase : UpperCase[i] = c]
    ELSE c

\* str.lower()
Lower(s) == [i \in DOMAIN s |-> LowerChar(s[i])]

STANDARD == <<"s","t","a","n","d","a","r","d">>
WATER_HEAVY == <<"w","a","t","e","r"," ","h","e","a","v","y">>
BATCH == <<"b","a","t","c","h">>

\* The profile selectors the runs are started with.
MaskTypes ==
    { STANDARD, WATER_HEAVY, BATCH,
      <<"S","t","a","n","d","a","r","d">>,
      <<"S","T","A","N","D","A","R","D">>,
      <<"W","a","t","e","r"," ","H","e","a","v","y">>,
      <<"W","A","T","E","R"," ","H","E","A","V","Y">>,
      <<"B","a","t","c","h">>,
      <<"b","A","T","C","h">>,
      <<"s","t","d">> }

\* --------------------------------------------------------------- arrays

NoArray == [shape |-> <<0, 0>>, data |-> <<>>]

Rows(a) == a.shape[1]
Cols(a) == a.shape[2]
Size(a) == Rows(a) * Cols(a)
Positions(a) == 0 .. (Size(a) - 1)

\* a[r, c] of a 2-D array
At(a, r, c) == a.data[r * Cols(a) + c]

RECURSIVE SumOver(_, _)
SumOver(f, S) ==
    IF S = {} THEN 0
    ELSE LET x == CHOOSE y \in S : TRUE
         IN  f[x] + SumOver(f, S \ {x})


\* ------------------------------------------------------ GDAL primitives

\* Number of pixels gdal.Warp gives an output axis of the given extent at
\* resolution res (outputBounds with xRes/yRes): (int)((extent + res/2) / res).
NPixels(extent, res) == (extent + res \div 2) \div res

\* Shape (rows, cols) of a raster warped to bounds = <<minx, miny, maxx, maxy>>.
WarpShape(bounds, res) ==
    << NPixels(bounds[4] - bounds[2], res), NPixels(bounds[3] - bounds[1], res) >>

\* gdal.Warp(..., resampleAlg='near'): the source sampled on the target grid.
\* A source [a, b, split] shows class a at the first `split` target pixels
\* (row-major) and class b at the others.
WarpNear(src, bounds, res) ==
    LET shp == WarpShape(bounds, res)
    IN  [shape |-> shp,
         data  |-> [k \in 0 .. (shp[1] * shp[2] - 1) |->
                        IF k < src.split THEN src.a ELSE src.b]]

\* Flat positions of the source pixels under target cell (i, j) when the
\* target pixel is `ratio` source pixels wide; pixels beyond the source
\* extent contribute nothing.
Footprint(a, i, j, ratio) ==
    { fr * Cols(a) + fc :
        fr \in { r \in (ratio * i) .. (ratio * i + ratio - 1) : r < Rows(a) },
        fc \in { c \in (ratio * j) .. (ratio * j + ratio - 1) : c < Cols(a) } }

\* gdal.Warp(..., resampleAlg='sum') of a 10 m array onto the 30 m grid.
WarpSum(a, bounds, res) ==
    LET shp == WarpShape(bounds, res)
        ratio == res \div FineRes
    IN  [shape |-> shp,
         data  |-> [k \in 0 .. (shp[1] * shp[2] - 1) |->
                        SumOver(a.data,
                                Footprint(a, k \div shp[2], k % shp[2], ratio))]]

\* ------------------------------------------------ pure steps of the code

WaterIndicatorOnly80(v) == IF v = 80 THEN 1 ELSE 0

\* np.where((ESA_array_10m == 80) | (ESA_array_10m == 90), 1, 0)
WaterIndicator(v) == IF v = 80 \/ v = 90 THEN 1 ELSE 0
\* np.where((ESA_array_10m == 50), 1, 0)
UrbanIndicator(v) == IF v = 50 THEN 1 ELSE 0
\* np.where((ESA_array_10m == 10), 1, 0)
TreeIndicator(v) == IF v = 10 THEN 1 ELSE 0

\* the three binary layers, same shape as the 10 m array
WaterMask(a) ==
    [shape |-> a.shape, data |-> [k \in DOMAIN a.data |-> WaterIndicator(a.data[k])]]
UrbanMask(a) ==
    [shape |-> a.shape, data |-> [k \in DOMAIN a.data |-> UrbanIndicator(a.data[k])]]
TreeMask(a) ==
    [shape |-> a.shape, data |-> [k \in DOMAIN a.data |-> TreeIndicator(a.data[k])]]

FilterNothing(cop, tree) == tree

\* np.where((Copernicus_arrray_30m == 111), tree_aggregate_sum, 0)
FilterEvergreen(cop, tree) ==
    [shape |-> tree.shape,
     data  |-> [k \in DOMAIN tree.data |->
                    IF cop.data[k] = EVERGREEN THEN tree.data[k] ELSE 0]]

ExceedsOrEquals(value, threshold) == value >= threshold

\* the test of write_array: value > threshold
Exceeds(value, threshold) == value > threshold

ThresholdDictionaryLooseTrees ==
    [key \in {STANDARD, WATER_HEAVY} |->
        IF key = STANDARD THEN <<6, 3, 7, 3>> ELSE <<5, 3, 7, 1>>]

ThresholdDictionary ==
    [key \in {STANDARD, WATER_HEAVY} |->
        IF key = STANDARD THEN <<6, 3, 7, 3>> ELSE <<6, 3, 7, 1>>]

HasKey(mask_flavor) == Lower(mask_flavor) \in DOMAIN ThresholdDictionary

\* get_thresholds, for a flavor the dictionary holds
get_thresholds(mask_flavor) == ThresholdDictionary[Lower(mask_flavor)]

RulesWaterFirst(t) ==
    << [agg |-> "h20",   threshold |-> t[4], val |-> WATER],
       [agg |-> "tree",  threshold |-> t[1], val |-> TREE],
       [agg |-> "urban", threshold |-> t[2], val |-> URBAN_MAJORITY],
       [agg |-> "urban", threshold |-> t[3], val |-> URBAN_DENSE] >>

RulesDenseFirst(t) ==
    << [agg |-> "tree",  threshold |-> t[1], val |-> TREE],
       [agg |-> "urban", threshold |-> t[3], val |-> URBAN_DENSE],
       [agg |-> "urban", threshold |-> t[2], val |-> URBAN_MAJORITY],
       [agg |-> "h20",   threshold |-> t[4], val |-> WATER] >>

\* The four write_array calls of assign_hierarchy, in order.
Rules(t) ==
    << [agg |-> "tree",  threshold |-> t[1], val |-> TREE],
       [agg |-> "urban", threshold |-> t[2], val |-> URBAN_MAJORITY],
       [agg |-> "urban", threshold |-> t[3], val |-> URBAN_DENSE],
       [agg |-> "h20",   threshold |-> t[4], val |-> WATER] >>

FullZero(n) == [shape |-> <<n>>, data |-> [k \in 0 .. (n - 1) |-> 0]]

\* np.full(h20_aggregate_sum.reshape(-1).shape, 30000)
Full(n) == [shape |-> <<n>>, data |-> [k \in 0 .. (n - 1) |-> UNCLASSIFIED]]

Inputs == {"DSWE", "Copernicus", "ESA"}

FirstMissingSkipESA(status) ==
    IF status["DSWE"] = "missing" THEN "DSWE"
    ELSE IF status["Copernicus"] = "missing" THEN "Copernicus"
    ELSE "none"

\* The first input os.path.isfile rejects, in the order of the three tests.
FirstMissing(status) ==
    IF status["DSWE"] = "missing" THEN "DSWE"
    ELSE IF status["Copernicus"] = "missing" THEN "Copernicus"
    ELSE IF status["ESA"] = "missing" THEN "ESA"
    ELSE "none"

\* gdal.Open gives a dataset (and not None)
Opens(status, name) == status[name] = "ok"


\* ---------------------------------------------------------- file system

ScratchNames ==
    { "Copernicus_reproject_30m.tif", "ESA_reproject_10m.tif",
      "aggregate_sum_80_30m.tif", "aggregate_sum_50_30m.tif",
      "aggregate_sum_10_30m.tif" }

\* gdal.Warp to a file name accumulating into a raster of the same size
\* already at that name
WarpIntoExisting(existing, warped) ==
    IF existing.shape = warped.shape
    THEN [warped EXCEPT !.data = [k \in DOMAIN warped.data |->
                                     existing.data[k] + warped.data[k]]]
    ELSE warped

\* gdal.Warp to a file name: the file is created anew whatever is at that
\* name, and the dataset returned holds the warped raster only
WarpInto(existing, warped) == warped

\* What an earlier run may have left behind in a scratch file.
StaleArray == [shape |-> <<1, 1>>, data |-> [k \in 0 .. 0 |-> 0]]

NoFile == [exists |-> FALSE, xsize |-> 0, ysize |-> 0, data |-> <<>>,
           nodata_set |-> FALSE]

StaleFile == [exists |-> TRUE, xsize |-> 1, ysize |-> 1,
              data |-> [k \in 0 .. 0 |-> 0], nodata_set |-> FALSE]

\* The scratch directory and the output path before the run.
InitialScratch(left) ==
    [isdir |-> left,
     files |-> [n \in ScratchNames |-> IF left THEN StaleArray ELSE NoArray]]

InitialDest(left) == IF left THEN StaleFile ELSE NoFile

\* --------------------------------------------------------------- inputs

Status == {"ok", "missing", "invalid"}

\* ESA WorldCover classes: tree 10, grassland 30, built-up 50, water 80,
\* wetland 90.
Palette == {10, 30, 50, 80, 90}

RefPixelSizes == {30, 25}

ESASources ==
    { [a |-> x, b |-> y, split |-> k] :
        x \in Palette, y \in Palette, k \in 0 .. MaxSplit }

CopernicusSources ==
    { [a |-> EVERGREEN, b |-> 50, split |-> k] : k \in 0 .. MaxCSplit }

ReferenceRasters(sizes) ==
    { [RasterYSize |-> l, RasterXSize |-> w, dx |-> d, dy |-> -d] :
        l \in 1 .. MaxLength, w \in 1 .. MaxWidth, d \in sizes }

VARIABLES
    status,                 \* of the three input paths: ok, missing, invalid
    leftover,               \* an earlier run left files behind
    DSWE_src,               \* the reference raster
    ESA_src,                \* the WorldCover source
    Copernicus_src,         \* the Copernicus source
    mask_type,              \* the profile selector
    pc,                     \* the statement create_landcover_mask is at
    logged,                 \* what logger.error was given
    raised,                 \* the exception that ended the run, "" if none
    scratch,                \* the scratch directory
    dest,                   \* the file at dest_path
    output_bounds,
    Copernicus_arrray_30m,
    ESA_array_10m,
    water_binary_mask,
    urban_binary_mask,
    tree_binary_mask,
    pending,                \* the create_LCMASK calls still to make
    mask_flavor,
    h20_aggregate_sum,
    urban_aggregate_sum,
    tree_aggregate_sum,
    hierarchy_combined,
    threshold_list,
    rule,                   \* the write_array call running, 1..4
    position,               \* its loop variable
    reclassified_array,
    args,                   \* the namespace parse_args gave main
    exit_status,            \* << the interpreter's exit status >>, <<>> while running
    par,                    \* create_LCMASK calls running side by side
    run,                    \* 1, or 2 in a run over what run 1 left
    first                   \* what the first of two runs ended with

inputs == << status, leftover, DSWE_src, ESA_src, Copernicus_src, mask_type >>
rasters == << output_bounds, Copernicus_arrray_30m, ESA_array_10m,
              water_binary_mask, urban_binary_mask, tree_binary_mask >>
aggregates == << h20_aggregate_sum, urban_aggregate_sum, tree_aggregate_sum >>
hierarchy == << hierarchy_combined, threshold_list, rule, position,
                reclassified_array >>
entry == << args, exit_status >>
earlier == << run, first >>
outer == << entry, par, earlier >>
vars == << outer, inputs, pc, logged, raised, scratch, dest, rasters, pending, mask_flavor,
           aggregates, hierarchy >>

AllOk == [n \in Inputs |-> "ok"]

\* Runs of one profile on good inputs, over every pair of classes (each
\* pair once), every split and every Copernicus source drawn.
InitData ==
    /\ status = AllOk
    /\ leftover = FALSE
    /\ DSWE_src \in ReferenceRasters({TargetRes})
    /\ ESA_src \in { e \in ESASources : e.a < e.b }
    /\ Copernicus_src \in CopernicusSources
    /\ mask_type \in {STANDARD, WATER_HEAVY}

\* Runs on good inputs with every selector, reference pixel size and
\* leftover state, over some sources mixing water with trees or built-up.
InitControl ==
    /\ status = AllOk
    /\ leftover \in BOOLEAN
    /\ DSWE_src \in ReferenceRasters(RefPixelSizes)
    /\ ESA_src \in { e \in ESASources :
                        e.a \in {10, 50} /\ e.b = 80 /\ e.split % 3 = 1 }
    /\ Copernicus_src \in { c \in CopernicusSources : c.split = 1 }
    /\ mask_type \in MaskTypes

\* Runs where some input is missing or is no raster.
InitBadInput ==
    /\ status \in [Inputs -> Status] \ {AllOk}
    /\ leftover \in BOOLEAN
    /\ DSWE_src \in ReferenceRasters({TargetRes})
    /\ ESA_src = [a |-> 10, b |-> 80, split |-> MaxSplit]
    /\ Copernicus_src = [a |-> EVERGREEN, b |-> 50, split |-> MaxCSplit]
    /\ mask_type \in {STANDARD, BATCH}

\* Nothing computed yet, the scratch directory and the output path as they
\* were left.
NothingComputed ==
    /\ logged = {}
    /\ raised = ""
    /\ scratch = InitialScratch(leftover)
    /\ dest = InitialDest(leftover)
    /\ output_bounds = <<0, 0, 0, 0>>
    /\ Copernicus_arrray_30m = NoArray
    /\ ESA_array_10m = NoArray
    /\ water_binary_mask = NoArray
    /\ urban_binary_mask = NoArray
    /\ tree_binary_mask = NoArray
    /\ pending = <<>>
    /\ mask_flavor = <<>>
    /\ h20_aggregate_sum = NoArray
    /\ urban_aggregate_sum = NoArray
    /\ tree_aggregate_sum = NoArray
    /\ hierarchy_combined = NoArray
    /\ threshold_list = <<>>
    /\ rule = 0
    /\ position = 0
    /\ reclassified_array = NoArray

Entered ==
    /\ pc = "start"
    /\ NothingComputed

\* A call of create_landcover_mask by itself: not through main, no profile
\* run side by side, no earlier run.
Alone ==
    /\ args = <<>>
    /\ exit_status = <<>>
    /\ par = <<>>
    /\ run = 1
    /\ first = <<>>

\* Batch runs on good inputs, over every pair of classes and every split.
InitBatch ==
    /\ status = AllOk
    /\ leftover = FALSE
    /\ DSWE_src \in ReferenceRasters({TargetRes})
    /\ ESA_src \in { e \in ESASources : e.a < e.b }
    /\ Copernicus_src \in { c \in CopernicusSources : c.split \in {0, MaxCSplit} }
    /\ mask_type = BATCH
    /\ Entered
    /\ Alone

\* A run, then a second run on the same inputs over what the first left.
InitRerun ==
    /\ status = AllOk
    /\ leftover \in BOOLEAN
    /\ DSWE_src \in ReferenceRasters({TargetRes})
    /\ ESA_src \in { e \in ESASources :
                        e.a \in {10, 50} /\ e.b = 80 /\ e.split % 3 = 0 }
    /\ Copernicus_src \in { c \in CopernicusSources : c.split \in {0, MaxCSplit} }
    /\ mask_type \in {STANDARD, WATER_HEAVY, BATCH, <<"s", "t", "d">>}
    /\ Entered
    /\ Alone

\* The script started from the command line, on good and on bad inputs.
InitMain ==
    /\ \/ InitControl
       \/ InitBadInput
    /\ pc = "main"
    /\ NothingComputed
    /\ Alone

Init ==
    /\ \/ InitData
       \/ InitControl
       \/ InitBadInput
    /\ Entered
    /\ Alone


\* --------------------------------------------------------------- steps

\* lines 101-111: the three os.path.isfile tests
CheckInputs ==
    /\ pc = "start"
    /\ IF FirstMissing(status) # "none"
       THEN /\ logged' = logged \cup {<<"file not found", FirstMissing(status)>>}
            /\ pc' = "returned"
       ELSE /\ logged' = logged
            /\ pc' = "open"
    /\ UNCHANGED << outer, inputs, raised, scratch, dest, rasters, pending,
                    mask_flavor, aggregates, hierarchy >>

\* lines 119-121: gdal.Open of the reference; the error branch logs and
\* falls through to line 122
OpenReference ==
    /\ pc = "open"
    /\ logged' = IF Opens(status, "DSWE") THEN logged
                 ELSE logged \cup {<<"invalid file", "DSWE">>}
    /\ pc' = "georef"
    /\ UNCHANGED << outer, inputs, raised, scratch, dest, rasters, pending,
                    mask_flavor, aggregates, hierarchy >>

\* lines 122-137: geotransform and size of the reference, output_bounds =
\* [x0, yf, xf, y0] with the origin at (0, 0); on a dataset that is None
\* line 122 raises AttributeError
ReadGeoreference ==
    /\ pc = "georef"
    /\ IF Opens(status, "DSWE")
       THEN /\ output_bounds' =
                 << 0, DSWE_src.RasterYSize * DSWE_src.dy,
                    DSWE_src.RasterXSize * DSWE_src.dx, 0 >>
            /\ pc' = "makedirs"
            /\ raised' = raised
       ELSE /\ output_bounds' = output_bounds
            /\ pc' = "crashed"
            /\ raised' = "AttributeError"
    /\ UNCHANGED << outer, inputs, logged, scratch, dest, Copernicus_arrray_30m,
                    ESA_array_10m, water_binary_mask, urban_binary_mask,
                    tree_binary_mask, pending, mask_flavor, aggregates,
                    hierarchy >>

\* lines 141-146: os.makedirs(scratch_dir) when it is no directory
MakeScratchDir ==
    /\ pc = "makedirs"
    /\ scratch' = [scratch EXCEPT !.isdir = TRUE]
    /\ pc' = "copernicus"
    /\ UNCHANGED << outer, inputs, logged, raised, dest, rasters, pending, mask_flavor,
                    aggregates, hierarchy >>

\* lines 148-159: process_Copernicus; gdal.Warp of a dataset that is None
\* raises
ProcessCopernicus ==
    /\ pc = "copernicus"
    /\ IF Opens(status, "Copernicus")
       THEN LET warped == WarpInto(scratch.files["Copernicus_reproject_30m.tif"],
                              WarpNear(Copernicus_src, output_bounds, TargetRes))
            IN  /\ scratch' = [scratch EXCEPT
                       !.files["Copernicus_reproject_30m.tif"] = warped]
                /\ Copernicus_arrray_30m' = warped
                /\ pc' = "esa"
                /\ raised' = raised
            /\ raised' = raised
       ELSE /\ UNCHANGED << scratch, Copernicus_arrray_30m >>
            /\ pc' = "crashed"
            /\ raised' = "WarpError"
    /\ UNCHANGED << outer, inputs, logged, dest, output_bounds, ESA_array_10m,
                    water_binary_mask, urban_binary_mask, tree_binary_mask,
                    pending, mask_flavor, aggregates, hierarchy >>

\* lines 164-177: process_ESA(ESA_input, 10) and ReadAsArray
ProcessESA ==
    /\ pc = "esa"
    /\ IF Opens(status, "ESA")
       THEN LET warped == WarpInto(scratch.files["ESA_reproject_10m.tif"],
                              WarpNear(ESA_src, output_bounds, FineRes))
            IN  /\ scratch' = [scratch EXCEPT
                       !.files["ESA_reproject_10m.tif"] = warped]
                /\ ESA_array_10m' = warped
                /\ pc' = "masks"
                /\ raised' = raised
            /\ raised' = raised
       ELSE /\ UNCHANGED << scratch, ESA_array_10m >>
            /\ pc' = "crashed"
            /\ raised' = "WarpError"
    /\ UNCHANGED << outer, inputs, logged, dest, output_bounds,
                    Copernicus_arrray_30m, water_binary_mask,
                    urban_binary_mask, tree_binary_mask, pending,
                    mask_flavor, aggregates, hierarchy >>

\* lines 180-182: the binary layers
BinaryMasks ==
    /\ pc = "masks"
    /\ water_binary_mask' = WaterMask(ESA_array_10m)
    /\ urban_binary_mask' = UrbanMask(ESA_array_10m)
    /\ tree_binary_mask' = TreeMask(ESA_array_10m)
    /\ pc' = "dispatch"
    /\ UNCHANGED << outer, inputs, logged, raised, scratch, dest, output_bounds,
                    Copernicus_arrray_30m, ESA_array_10m, pending,
                    mask_flavor, aggregates, hierarchy >>

\* lines 264-268: which create_LCMASK calls are made
Dispatch ==
    /\ pc = "dispatch"
    /\ pending' = IF Lower(mask_type) = BATCH
                  THEN << STANDARD, WATER_HEAVY >>
                  ELSE << mask_type >>
    /\ pc' = "lcmask"
    /\ UNCHANGED << outer, inputs, logged, raised, scratch, dest, rasters, mask_flavor,
                    aggregates, hierarchy >>

\* line 199: the next create_LCMASK(mask_flavor) call
CreateLCMASK ==
    /\ pc = "lcmask"
    /\ pending # <<>>
    /\ mask_flavor' = Head(pending)
    /\ pending' = Tail(pending)
    /\ pc' = "agg_h20"
    /\ UNCHANGED << outer, inputs, logged, raised, scratch, dest, rasters, aggregates,
                    hierarchy >>

\* line 212: aggregate_sum_raster(water_binary_mask, "80")
AggregateWater ==
    /\ pc = "agg_h20"
    /\ LET agg == WarpInto(scratch.files["aggregate_sum_80_30m.tif"],
                      WarpSum(water_binary_mask, output_bounds, TargetRes))
       IN  /\ scratch' = [scratch EXCEPT !.files["aggregate_sum_80_30m.tif"] = agg]
           /\ h20_aggregate_sum' = agg
    /\ pc' = "agg_urban"
    /\ UNCHANGED << outer, inputs, logged, raised, dest, rasters, pending, mask_flavor,
                    urban_aggregate_sum, tree_aggregate_sum, hierarchy >>

\* line 213: aggregate_sum_raster(urban_binary_mask, "50")
AggregateUrban ==
    /\ pc = "agg_urban"
    /\ LET agg == WarpInto(scratch.files["aggregate_sum_50_30m.tif"],
                      WarpSum(urban_binary_mask, output_bounds, TargetRes))
       IN  /\ scratch' = [scratch EXCEPT !.files["aggregate_sum_50_30m.tif"] = agg]
           /\ urban_aggregate_sum' = agg
    /\ pc' = "agg_tree"
    /\ UNCHANGED << outer, inputs, logged, raised, dest, rasters, pending, mask_flavor,
                    h20_aggregate_sum, tree_aggregate_sum, hierarchy >>

\* line 214: aggregate_sum_raster(tree_binary_mask, "10")
AggregateTree ==
    /\ pc = "agg_tree"
    /\ LET agg == WarpInto(scratch.files["aggregate_sum_10_30m.tif"],
                      WarpSum(tree_binary_mask, output_bounds, TargetRes))
       IN  /\ scratch' = [scratch EXCEPT !.files["aggregate_sum_10_30m.tif"] = agg]
           /\ tree_aggregate_sum' = agg
    /\ pc' = "filter"
    /\ UNCHANGED << outer, inputs, logged, raised, dest, rasters, pending, mask_flavor,
                    h20_aggregate_sum, urban_aggregate_sum, hierarchy >>

\* line 218: the evergreen filter
FilterTree ==
    /\ pc = "filter"
    /\ tree_aggregate_sum' = FilterEvergreen(Copernicus_arrray_30m, tree_aggregate_sum)
    /\ pc' = "full"
    /\ UNCHANGED << outer, inputs, logged, raised, scratch, dest, rasters, pending,
                    mask_flavor, h20_aggregate_sum, urban_aggregate_sum,
                    hierarchy >>

\* line 227: hierarchy_combined = np.full(..., 30000)
InitHierarchy ==
    /\ pc = "full"
    /\ hierarchy_combined' = Full(Size(h20_aggregate_sum))
    /\ pc' = "thresholds"
    /\ UNCHANGED << outer, inputs, logged, raised, scratch, dest, rasters, pending,
                    mask_flavor, aggregates, threshold_list, rule, position,
                    reclassified_array >>

\* line 229: get_thresholds(mask_flavor); a key the dictionary lacks raises
\* KeyError
GetThresholds ==
    /\ pc = "thresholds"
    /\ IF HasKey(mask_flavor)
       THEN /\ threshold_list' = get_thresholds(mask_flavor)
            /\ rule' = 1
            /\ position' = 0
            /\ pc' = "write_array"
            /\ raised' = raised
       ELSE /\ UNCHANGED << threshold_list, rule, position >>
            /\ pc' = "crashed"
            /\ raised' = "KeyError"
    /\ UNCHANGED << outer, inputs, logged, scratch, dest, rasters, pending,
                    mask_flavor, aggregates, hierarchy_combined,
                    reclassified_array >>

\* The aggregate a rule reads.
AggregateOf(name) ==
    IF name = "tree" THEN tree_aggregate_sum
    ELSE IF name = "urban" THEN urban_aggregate_sum
    ELSE h20_aggregate_sum

\* lines 220-225 under lines 230-233: one iteration of the loop of the
\* write_array call running; the call returns after the last position and
\* the next call starts
WriteArrayStep ==
    /\ pc = "write_array"
    /\ LET r == Rules(threshold_list)[rule]
           flat_agg == AggregateOf(r.agg).data
           last == position + 1 = Size(h20_aggregate_sum)
       IN  /\ hierarchy_combined' =
                 IF Exceeds(flat_agg[position], r.threshold)
                 THEN [hierarchy_combined EXCEPT !.data[position] = r.val]
                 ELSE hierarchy_combined
           /\ position' = IF last THEN 0 ELSE position + 1
           /\ rule' = IF last THEN rule + 1 ELSE rule
           /\ pc' = IF last /\ rule = Len(Rules(threshold_list))
                    THEN "reshape" ELSE "write_array"
    /\ UNCHANGED << outer, inputs, logged, raised, scratch, dest, rasters, pending,
                    mask_flavor, aggregates, threshold_list,
                    reclassified_array >>

\* lines 235-239: reshape to the shape of the aggregates
Reshape ==
    /\ pc = "reshape"
    /\ hierarchy_combined' =
         [hierarchy_combined EXCEPT !.shape = h20_aggregate_sum.shape]
    /\ reclassified_array' =
         [hierarchy_combined EXCEPT !.shape = h20_aggregate_sum.shape]
    /\ pc' = "gtiff_create"
    /\ UNCHANGED << outer, inputs, logged, raised, scratch, dest, rasters, pending,
                    mask_flavor, aggregates, threshold_list, rule, position >>

\* lines 243-250: driver.Create(outpath, xsize = shape[0], ysize = shape[1])
GTiffCreate ==
    /\ pc = "gtiff_create"
    /\ dest' = [exists |-> TRUE,
                xsize |-> reclassified_array.shape[1],
                ysize |-> reclassified_array.shape[2],
                data |-> [k \in Positions(reclassified_array) |-> 0],
                nodata_set |-> FALSE]
    /\ pc' = "gtiff_write"
    /\ UNCHANGED << outer, inputs, logged, raised, scratch, rasters, pending, mask_flavor,
                    aggregates, hierarchy >>

\* lines 251-258: outband.WriteArray raises ValueError for an array wider
\* or taller than the band; otherwise the array is written and the nodata
\* value set
GTiffWrite ==
    /\ pc = "gtiff_write"
    /\ IF Cols(reclassified_array) > dest.xsize
          \/ Rows(reclassified_array) > dest.ysize
       THEN /\ dest' = dest
            /\ pc' = "crashed"
            /\ raised' = "ValueError"
       ELSE /\ dest' = [dest EXCEPT !.data = reclassified_array.data,
                                    !.nodata_set = TRUE]
            /\ pc' = "lcmask"
            /\ raised' = raised
    /\ UNCHANGED << outer, inputs, logged, scratch, rasters, pending, mask_flavor,
                    aggregates, hierarchy >>

\* lines 271-273: every create_LCMASK call has returned
Finish ==
    /\ pc = "lcmask"
    /\ pending = <<>>
    /\ pc' = "done"
    /\ UNCHANGED << outer, inputs, logged, raised, scratch, dest, rasters, pending,
                    mask_flavor, aggregates, hierarchy >>

Next ==
    \/ CheckInputs
    \/ OpenReference
    \/ ReadGeoreference
    \/ MakeScratchDir
    \/ ProcessCopernicus
    \/ ProcessESA
    \/ BinaryMasks
    \/ Dispatch
    \/ CreateLCMASK
    \/ AggregateWater
    \/ AggregateUrban
    \/ AggregateTree
    \/ FilterTree
    \/ InitHierarchy
    \/ GetThresholds
    \/ WriteArrayStep
    \/ Reshape
    \/ GTiffCreate
    \/ GTiffWrite
    \/ Finish

Spec == Init /\ [][Next]_vars


\* ------------------------------------------------------------------ main

\* the attributes parse_args sets: the dest of every add_argument
ParsedArgs ==
    [input_file |-> "DSWE", landcover_file |-> "Copernicus",
     worldcover_file |-> "ESA", output_file |-> "dest_path",
     mask_type |-> mask_type, log_file |-> "", scratch_dir |-> "."]

\* the attributes main reads to call create_landcover_mask
AttributesRead ==
    {"input_file", "copernicus_landcover_file", "worldcover_file",
     "output_file", "scratch_dir", "mask_type"}

\* parser = _get_parser(); args = parser.parse_args()
ParseArgs ==
    /\ pc = "main"
    /\ args' = ParsedArgs
    /\ pc' = "call"
    /\ UNCHANGED << exit_status, par, earlier, inputs, logged, raised, scratch,
                    dest, rasters, pending, mask_flavor, aggregates, hierarchy >>

\* create_logger(args.log_file), then the call of create_landcover_mask:
\* reading an attribute the namespace does not have raises AttributeError
\* before the call is made.
CallCreateLandcoverMask ==
    /\ pc = "call"
    /\ IF AttributesRead \subseteq DOMAIN args
       THEN /\ pc' = "start"
            /\ raised' = raised
       ELSE /\ pc' = "crashed"
            /\ raised' = "AttributeError"
    /\ UNCHANGED << outer, inputs, logged, scratch, dest, rasters, pending,
                    mask_flavor, aggregates, hierarchy >>

\* The interpreter ends: status 1 after an uncaught exception, else 0
\* (main calls no sys.exit).
Exit ==
    /\ args # <<>>
    /\ pc \in {"returned", "done", "crashed"}
    /\ exit_status' = IF raised # "" THEN <<1>> ELSE <<0>>
    /\ pc' = "exited"
    /\ UNCHANGED << args, par, earlier, inputs, logged, raised, scratch, dest,
                    rasters, pending, mask_flavor, aggregates, hierarchy >>

NextMain ==
    \/ ParseArgs
    \/ CallCreateLandcoverMask
    \/ Exit

\* the script run from the command line; create_landcover_mask's steps are
\* those of Next, which no run of main gets to
SpecMain == InitMain /\ [][NextMain]_vars

\* --------------------------------------------------------- a second run

\* create_landcover_mask is called again with the same arguments once the
\* first call has ended: the scratch directory and the output path are as
\* the first call left them, everything else starts anew.
Rerun ==
    /\ run = 1
    /\ pc \in {"returned", "done", "crashed"}
    /\ first' = [dest |-> dest, raised |-> raised, logged |-> logged]
    /\ run' = 2
    /\ pc' = "start"
    /\ logged' = {}
    /\ raised' = ""
    /\ output_bounds' = <<0, 0, 0, 0>>
    /\ Copernicus_arrray_30m' = NoArray
    /\ ESA_array_10m' = NoArray
    /\ water_binary_mask' = NoArray
    /\ urban_binary_mask' = NoArray
    /\ tree_binary_mask' = NoArray
    /\ pending' = <<>>
    /\ mask_flavor' = <<>>
    /\ h20_aggregate_sum' = NoArray
    /\ urban_aggregate_sum' = NoArray
    /\ tree_aggregate_sum' = NoArray
    /\ hierarchy_combined' = NoArray
    /\ threshold_list' = <<>>
    /\ rule' = 0
    /\ position' = 0
    /\ reclassified_array' = NoArray
    /\ UNCHANGED << entry, par, inputs, scratch, dest >>

NextRerun ==
    \/ Next
    \/ Rerun

SpecRerun == InitRerun /\ [][NextRerun]_vars

\* ------------------------------------------- the two profiles side by side

\* The two create_LCMASK calls of a batch run, here run concurrently: both
\* are closures over the same project_dir, dest_path, binary masks and
\* Copernicus array.
Profiles == {STANDARD, WATER_HEAVY}

AggOrder == << "h20", "urban", "tree" >>

\* aggregate_sum_raster's file for each aggregate (line 191)
AggFile(agg) ==
    IF agg = "h20" THEN "aggregate_sum_80_30m.tif"
    ELSE IF agg = "urban" THEN "aggregate_sum_50_30m.tif"
    ELSE "aggregate_sum_10_30m.tif"

MaskOf(agg) ==
    IF agg = "h20" THEN water_binary_mask
    ELSE IF agg = "urban" THEN urban_binary_mask
    ELSE tree_binary_mask

\* write_array (lines 220-225), the whole loop
write_array(input_array, aggregate, threshold, val) ==
    [input_array EXCEPT !.data =
        [k \in DOMAIN input_array.data |->
            IF Exceeds(aggregate.data[k], threshold)
            THEN val ELSE input_array.data[k]]]

RECURSIVE AfterRules(_, _, _, _)
\* lines 230-233: the first n write_array calls
AfterRules(h, aggs, t, n) ==
    IF n = 0 THEN h
    ELSE LET r == Rules(t)[n]
         IN  write_array(AfterRules(h, aggs, t, n - 1), aggs[r.agg],
                         r.threshold, r.val)

\* The locals of a create_LCMASK call that has just been entered.
CallEntered ==
    [pc |-> "warp", stage |-> 1, h20 |-> NoArray, urban |-> NoArray,
     tree |-> NoArray, reclassified_array |-> NoArray, raised |-> "",
     wrote |-> {}, read |-> {}]

\* Lines 264-266 with the two calls started together.
Fork ==
    /\ pc = "lcmask"
    /\ pending = << STANDARD, WATER_HEAVY >>
    /\ par' = [p \in Profiles |-> CallEntered]
    /\ pending' = <<>>
    /\ pc' = "parallel"
    /\ UNCHANGED << entry, earlier, inputs, logged, raised, scratch, dest, rasters,
                    mask_flavor, aggregates, hierarchy >>

\* lines 192-193: gdal.Warp of a binary mask to its aggregate file
ParWarp(p) ==
    /\ pc = "parallel"
    /\ par[p].pc = "warp"
    /\ LET agg == AggOrder[par[p].stage]
       IN  /\ scratch' = [scratch EXCEPT !.files[AggFile(agg)] =
                    WarpInto(@, WarpSum(MaskOf(agg), output_bounds, TargetRes))]
           /\ par' = [par EXCEPT ![p].pc = "read",
                                 ![p].wrote = @ \cup {AggFile(agg)}]
    /\ UNCHANGED << entry, earlier, inputs, pc, logged, raised, dest, rasters,
                    pending, mask_flavor, aggregates, hierarchy >>

\* line 195: ReadAsArray of the aggregate file
ParRead(p) ==
    /\ pc = "parallel"
    /\ par[p].pc = "read"
    /\ LET agg == AggOrder[par[p].stage]
           last == par[p].stage = Len(AggOrder)
       IN  par' = [par EXCEPT ![p][agg] = scratch.files[AggFile(agg)],
                              ![p].read = @ \cup {AggFile(agg)},
                              ![p].stage = IF last THEN @ ELSE @ + 1,
                              ![p].pc = IF last THEN "classify" ELSE "warp"]
    /\ UNCHANGED << entry, earlier, inputs, pc, logged, raised, scratch, dest,
                    rasters, pending, mask_flavor, aggregates, hierarchy >>

\* lines 218-239: the evergreen filter, the four rules and the reshape, all
\* on the call's own arrays
ParClassify(p) ==
    /\ pc = "parallel"
    /\ par[p].pc = "classify"
    /\ LET filtered == FilterEvergreen(Copernicus_arrray_30m, par[p].tree)
           aggs == [h20 |-> par[p].h20, urban |-> par[p].urban, tree |-> filtered]
           t == get_thresholds(p)
           flat == AfterRules(Full(Size(par[p].h20)), aggs, t, Len(Rules(t)))
       IN  par' = [par EXCEPT ![p].tree = filtered,
                              ![p].reclassified_array =
                                  [flat EXCEPT !.shape = par[p].h20.shape],
                              ![p].pc = "gtiff_create"]
    /\ UNCHANGED << entry, earlier, inputs, pc, logged, raised, scratch, dest,
                    rasters, pending, mask_flavor, aggregates, hierarchy >>

\* lines 243-250: driver.Create at dest_path
ParGTiffCreate(p) ==
    /\ pc = "parallel"
    /\ par[p].pc = "gtiff_create"
    /\ dest' = [exists |-> TRUE,
                xsize |-> par[p].reclassified_array.shape[1],
                ysize |-> par[p].reclassified_array.shape[2],
                data |-> [k \in Positions(par[p].reclassified_array) |-> 0],
                nodata_set |-> FALSE]
    /\ par' = [par EXCEPT ![p].pc = "gtiff_write",
                          ![p].wrote = @ \cup {"dest_path"}]
    /\ UNCHANGED << entry, earlier, inputs, pc, logged, raised, scratch, rasters,
                    pending, mask_flavor, aggregates, hierarchy >>

\* lines 251-258: WriteArray and the close of the dataset
ParGTiffWrite(p) ==
    /\ pc = "parallel"
    /\ par[p].pc = "gtiff_write"
    /\ IF Cols(par[p].reclassified_array) > dest.xsize
          \/ Rows(par[p].reclassified_array) > dest.ysize
       THEN /\ dest' = dest
            /\ par' = [par EXCEPT ![p].pc = "crashed",
                                  ![p].raised = "ValueError"]
       ELSE /\ dest' = [dest EXCEPT !.data = par[p].reclassified_array.data,
                                    !.nodata_set = TRUE]
            /\ par' = [par EXCEPT ![p].pc = "end"]
    /\ UNCHANGED << entry, earlier, inputs, pc, logged, raised, scratch, rasters,
                    pending, mask_flavor, aggregates, hierarchy >>

\* The run up to the batch branch, then the two calls interleaved.
NextPar ==
    \/ CheckInputs
    \/ OpenReference
    \/ ReadGeoreference
    \/ MakeScratchDir
    \/ ProcessCopernicus
    \/ ProcessESA
    \/ BinaryMasks
    \/ Dispatch
    \/ Fork
    \/ \E p \in Profiles : ParWarp(p)
    \/ \E p \in Profiles : ParRead(p)
    \/ \E p \in Profiles : ParClassify(p)
    \/ \E p \in Profiles : ParGTiffCreate(p)
    \/ \E p \in Profiles : ParGTiffWrite(p)

\* Batch runs on good inputs.
InitPar ==
    /\ status = AllOk
    /\ leftover = FALSE
    /\ DSWE_src \in ReferenceRasters({TargetRes})
    /\ ESA_src \in { e \in ESASources :
                        e.a \in {10, 50} /\ e.b = 80 /\ e.split % 3 = 0 }
    /\ Copernicus_src \in { c \in CopernicusSources : c.split \in {0, MaxCSplit} }
    /\ mask_type = BATCH
    /\ Entered
    /\ Alone

SpecPar == InitPar /\ [][NextPar]_vars

\* create_landcover_mask called with 'batch'
SpecBatch == InitBatch /\ [][Next]_vars


\* The files at the paths array_to_geotiff is given (line 262): every
\* create_LCMASK call writes to dest_path.
OutputFiles == {dest}

\* ---------------------------------------------------- reading the state

\* The four rules have run for the flavor in hand and its array is final.
Classified == pc \in {"reshape", "gtiff_create", "gtiff_write"}

\* The evergreen filter has run for the flavor in hand.
Filtered == pc \in {"full", "thresholds", "write_array"} \/ Classified

Cells == Positions(h20_aggregate_sum)

\* The tree aggregate as aggregate_sum_raster wrote it, before the filter.
RawTreeSum == scratch.files["aggregate_sum_10_30m.tif"]

\* --------------------------------------------------------------- claims

C2_LaterRuleWins ==
    Classified =>
      \A p \in Cells :
        LET t == threshold_list
            tree == tree_aggregate_sum.data[p]
            urban == urban_aggregate_sum.data[p]
            water == h20_aggregate_sum.data[p]
            code == hierarchy_combined.data[p]
        IN  /\ (urban > t[2] /\ urban > t[3] /\ ~(water > t[4]))
                  => code = 20191
            /\ (tree > t[1] /\ water > t[4]) => code = 25000
            /\ (urban > t[2] /\ water > t[4]) => code = 25000

\* C2 witness: a cell over the tree threshold and over the water threshold
\* that ended as water.
C2_Witness ==
    /\ Classified
    /\ \E p \in Cells :
         /\ tree_aggregate_sum.data[p] > threshold_list[1]
         /\ h20_aggregate_sum.data[p] > threshold_list[4]
         /\ hierarchy_combined.data[p] = 25000

\* C3: after the auxiliary filter the tree count is 0 in every cell whose
\* Copernicus value is not 111, whatever the raw count, and is the raw
\* count where the value is 111; and a cell whose Copernicus value is not
\* 111 never holds code 42.
C3_EvergreenFilter ==
    /\ Filtered =>
         \A p \in Cells :
            /\ RawTreeSum.data[p] \in 0 .. 9
            /\ Copernicus_arrray_30m.data[p] # 111
                  => tree_aggregate_sum.data[p] = 0
            /\ Copernicus_arrray_30m.data[p] = 111
                  => tree_aggregate_sum.data[p] = RawTreeSum.data[p]
    /\ \A p \in DOMAIN hierarchy_combined.data :
            Copernicus_arrray_30m.data[p] # 111
               => hierarchy_combined.data[p] # 42

\* C3 witness: a cell with raw tree count 9 and Copernicus value 50, its
\* filtered count 0, not classified as tree after the four rules.
C3_Witness ==
    /\ Classified
    /\ \E p \in Cells :
         /\ RawTreeSum.data[p] = 9
         /\ Copernicus_arrray_30m.data[p] = 50
         /\ tree_aggregate_sum.data[p] = 0
         /\ hierarchy_combined.data[p] = UNCLASSIFIED

\* C4: at every point, every cell of the classification array (flat or
\* reshaped) holds one of 30000, 42, 2019, 20191, 25000.
C4_OutputCodeSet ==
    /\ \A p \in DOMAIN hierarchy_combined.data :
          hierarchy_combined.data[p] \in {30000, 42, 2019, 20191, 25000}
    /\ \A p \in DOMAIN reclassified_array.data :
          reclassified_array.data[p] \in {30000, 42, 2019, 20191, 25000}

\* C4 witness: in the middle of the last rule of the water heavy profile,
\* the array holding a classified and an unclassified cell.
C4_Witness ==
    /\ pc = "write_array"
    /\ rule = 4
    /\ position >= 1
    /\ Lower(mask_flavor) = WATER_HEAVY
    /\ \E p, q \in DOMAIN hierarchy_combined.data :
          /\ hierarchy_combined.data[p] = UNCLASSIFIED
          /\ hierarchy_combined.data[q] \in {42, 2019, 20191, 25000}


\* The code a cell ends with, by the priority of the rules: the reference
\* the outputs are compared with.
PriorityCode(t, tree, urban, water) ==
    IF water > t[4] THEN 25000
    ELSE IF urban > t[3] THEN 20191
    ELSE IF urban > t[2] THEN 2019
    ELSE IF tree > t[1] THEN 42
    ELSE 30000

\* The classification of the aggregates in hand under thresholds t.
ExpectedData(t) ==
    [p \in Cells |->
        PriorityCode(t, tree_aggregate_sum.data[p],
                     urban_aggregate_sum.data[p], h20_aggregate_sum.data[p])]

GridMismatch ==
    DSWE_src.dx % 10 # 0 \/ DSWE_src.dx # 30

\* C5: after a run with selector "batch" (on a 30 m reference grid) two
\* output rasters exist, one equal to the output of a "standard" run and
\* one equal to the output of a "water heavy" run on the same inputs.
C5_BatchKeepsBothOutputs ==
    (pc = "done" /\ Lower(mask_type) = BATCH /\ ~GridMismatch) =>
        /\ \E f \in OutputFiles :
              f.exists /\ f.data = ExpectedData(<<6, 3, 7, 3>>)
        /\ \E f \in OutputFiles :
              f.exists /\ f.data = ExpectedData(<<6, 3, 7, 1>>)

\* The 10 m pixels of the 3x3 footprint of 30 m cell (i, j).
FinePixelsOf(i, j) ==
    { <<fr, fc>> : fr \in (3 * i) .. (3 * i + 2), fc \in (3 * j) .. (3 * j + 2) }

FullyCovered(i, j) ==
    3 * i + 2 < Rows(ESA_array_10m) /\ 3 * j + 2 < Cols(ESA_array_10m)

\* How many 10 m pixels under cell (i, j) hold a class of S.
Matching(i, j, S) ==
    Cardinality({ q \in FinePixelsOf(i, j) : At(ESA_array_10m, q[1], q[2]) \in S })

CountsExact(agg, S) ==
    \A i \in 0 .. (Rows(agg) - 1), j \in 0 .. (Cols(agg) - 1) :
        FullyCovered(i, j) =>
            /\ At(agg, i, j) = Matching(i, j, S)
            /\ At(agg, i, j) \in 0 .. 9

\* C6: for every 30 m cell fully covered by the 10 m raster, each
\* aggregate, as aggregate_sum_raster returns it, equals the number of
\* 10 m pixels of the cell's 3x3 footprint holding the class (water: 80 or
\* 90; urban: 50; tree: 10), so it lies in 0..9.
C6_AggregateIsExactCount ==
    /\ pc = "agg_urban" => CountsExact(h20_aggregate_sum, {80, 90})
    /\ pc = "agg_tree" => CountsExact(urban_aggregate_sum, {50})
    /\ pc = "filter" => CountsExact(tree_aggregate_sum, {10})

\* C6 witness: the aggregates of a raster holding wetland (90), one cell
\* all water (count 9) and one cell with two water pixels (count 2).
C6_Witness ==
    /\ pc = "filter"
    /\ \E k \in DOMAIN ESA_array_10m.data : ESA_array_10m.data[k] = 90
    /\ \E p, q \in Cells :
          /\ h20_aggregate_sum.data[p] = 9
          /\ h20_aggregate_sum.data[q] = 2

\* C7: when one of the three inputs is missing the run logs the error and
\* returns at the tests: the scratch directory and its files and the output
\* path are as they were before the run.
C7_MissingInputAborts ==
    (\E n \in Inputs : status[n] = "missing") =>
        /\ pc \in {"start", "returned"}
        /\ pc = "returned" =>
              \E n \in Inputs :
                 status[n] = "missing" /\ <<"file not found", n>> \in logged
        /\ raised = ""
        /\ scratch = InitialScratch(leftover)
        /\ dest = InitialDest(leftover)
        /\ reclassified_array = NoArray

\* C7 witness: only the fine land cover is missing, nothing was left by an
\* earlier run, and the run has returned.
C7_Witness ==
    /\ pc = "returned"
    /\ status = [AllOk EXCEPT !["ESA"] = "missing"]
    /\ ~leftover
    /\ ~scratch.isdir

\* C8: when an input exists but cannot be opened, the run reports an
\* invalid-raster error for it before it ends.
C8_InvalidRasterReported ==
    ( /\ pc \in {"returned", "crashed", "done"}
      /\ \A n \in Inputs : status[n] # "missing"
      /\ \E n \in Inputs : status[n] = "invalid" )
    => \E n \in Inputs :
          status[n] = "invalid" /\ <<"invalid file", n>> \in logged

\* C9: when the pixel size of the reference grid is not a multiple of
\* 10 m or is not 30 m, the run is rejected: no classification raster is
\* produced and nothing is written at the output path.
C9_GridMismatchRejected ==
    GridMismatch =>
        /\ reclassified_array = NoArray
        /\ dest = InitialDest(leftover)

\* s is canon with some letters in upper case.
IsCaseVariant(s, canon) ==
    /\ Len(s) = Len(canon)
    /\ \A i \in 1 .. Len(s) :
          \/ s[i] = canon[i]
          \/ \E j \in DOMAIN LowerCase :
                LowerCase[j] = canon[i] /\ UpperCase[j] = s[i]

\* The profile name a selector spells, <<>> when it spells none.
Canonical(s) ==
    IF IsCaseVariant(s, STANDARD) THEN STANDARD
    ELSE IF IsCaseVariant(s, WATER_HEAVY) THEN WATER_HEAVY
    ELSE IF IsCaseVariant(s, BATCH) THEN BATCH
    ELSE <<>>

Scheduled(canon) ==
    IF canon = BATCH THEN <<STANDARD, WATER_HEAVY>> ELSE <<canon>>

ProfileThresholds(canon) ==
    IF canon = STANDARD THEN <<6, 3, 7, 3>> ELSE <<6, 3, 7, 1>>

\* C10: the selector is case-insensitive. For every case variant of
\* "standard", "water heavy" and "batch": no KeyError is raised; the
\* create_LCMASK calls made are those of the lowercase name ("batch": the
\* standard profile, then the water heavy one); each call uses (6, 3, 7, 3)
\* for standard and (6, 3, 7, 1) for water heavy; and the output of a
\* finished run is the classification under the thresholds of the last
\* profile of the lowercase name.
C10_CaseInsensitiveSelector ==
    LET canon == Canonical(mask_type)
        sched == Scheduled(canon)
        at == Len(sched) - Len(pending)
    IN  canon # <<>> =>
          /\ raised # "KeyError"
          /\ (pending # <<>> \/ mask_flavor # <<>>) =>
                /\ Len(pending) <= Len(sched)
                /\ \A i \in 1 .. Len(pending) :
                      Canonical(pending[i]) = sched[at + i]
                /\ IF mask_flavor = <<>> THEN at = 0
                   ELSE at >= 1 /\ Canonical(mask_flavor) = sched[at]
          /\ pc = "done" => pending = <<>> /\ mask_flavor # <<>>
          /\ (pc = "write_array" \/ Classified) =>
                threshold_list = ProfileThresholds(Canonical(mask_flavor))
          /\ pc = "done" =>
                /\ dest.exists /\ dest.nodata_set
                /\ dest.data = ExpectedData(ProfileThresholds(sched[Len(sched)]))

\* C10 witness: a finished "WATER HEAVY" run whose output holds water in a
\* cell with two water pixels, which only the water heavy thresholds give.
C10_Witness ==
    /\ pc = "done"
    /\ mask_type = <<"W","A","T","E","R"," ","H","E","A","V","Y">>
    /\ \E p \in Cells :
          h20_aggregate_sum.data[p] = 2 /\ dest.data[p] = 25000


\* C11: no output file is left in place on failure, the writer being the
\* last stage: a run that ended with an exception has not touched the
\* output path, and whenever the output path has been written no
\* create_LCMASK call (aggregation, classification) is still to be made
\* (on a 30 m reference grid).
C11_WriterIsLastStage ==
    ~GridMismatch =>
        /\ raised # "" => dest = InitialDest(leftover)
        /\ dest # InitialDest(leftover) => pending = <<>>

\* C15: the raster the writer creates has as many columns as the
\* classification array (the reference raster's width) and as many rows as
\* the array (the reference raster's length), on a 30 m reference grid.
C15_RasterFitsArray ==
    (pc = "gtiff_write" /\ ~GridMismatch) =>
        /\ dest.xsize = Cols(reclassified_array)
        /\ dest.ysize = Rows(reclassified_array)
        /\ dest.xsize = DSWE_src.RasterXSize
        /\ dest.ysize = DSWE_src.RasterYSize

BothOutputsAtHand ==
    /\ Lower(mask_type) = BATCH
    /\ mask_flavor = WATER_HEAVY
    /\ pc = "gtiff_create"
    /\ dest.exists /\ dest.nodata_set

GoodInputs ==
    /\ status = AllOk
    /\ ~GridMismatch
    /\ DSWE_src.RasterXSize = DSWE_src.RasterYSize
    /\ Canonical(mask_type) # <<>>

\* C12: the command-line entry point exits with a non-zero status when an
\* input file is missing, and with status zero when all inputs are present
\* and the mask can be written.
C12_ExitStatus ==
    pc = "exited" =>
        /\ (\E n \in Inputs : status[n] = "missing") => exit_status # <<0>>
        /\ GoodInputs => exit_status = <<0>>


\* C14: the pipeline is deterministic: a second run on the same three
\* rasters and the same selector, started over whatever the first run left
\* in the scratch directory and at the output path, ends as the first did
\* and leaves an output raster equal to the first run's cell for cell.
C14_Deterministic ==
    (run = 2 /\ pc \in {"returned", "done", "crashed"}) =>
        /\ dest = first.dest
        /\ raised = first.raised
        /\ logged = first.logged

\* C14 witness: a second run that finished over the first run's scratch
\* files and output, its raster holding a built-up cell beside a water cell.
C14_Witness ==
    /\ run = 2
    /\ pc = "done"
    /\ first.dest.exists
    /\ \E p, q \in DOMAIN dest.data :
          dest.data[p] = 2019 /\ dest.data[q] = 25000


\* The output of a profile run alone on the inputs at hand, as C16 gives it.
AloneOutput(p) ==
    LET t == get_thresholds(p)
    IN  [k \in DOMAIN par[p].h20.data |->
            PriorityCode(t, par[p].tree.data[k], par[p].urban.data[k],
                         par[p].h20.data[k])]

\* C13: the standard and the water heavy profile run concurrently on the
\* same inputs, scratch directory and output path need no synchronization:
\* neither reads or overwrites a file the other wrote, and when both have
\* ended the output of each is the output it produces when run alone.
C13_ProfilesIndependent ==
    pc = "parallel" =>
        /\ par[STANDARD].wrote \cap par[WATER_HEAVY].wrote = {}
        /\ par[STANDARD].read \cap par[WATER_HEAVY].wrote = {}
        /\ par[WATER_HEAVY].read \cap par[STANDARD].wrote = {}
        /\ (\A p \in Profiles : par[p].pc = "end") =>
              \A p \in Profiles : dest.data = AloneOutput(p)

=============================================================================
